---- MODULE Spec2Model ----
(***************************************************************************)
(* Model of the spectrogram utilities of chirp-cnn                         *)
(* (src/src/utils/spectrogram.py).                                         *)
(*                                                                         *)
(* A Python float is a record [n |-> numerator, d |-> denominator,         *)
(* ulp |-> u]: for u = 0 the rational n/d in lowest terms (d > 0), taken   *)
(* as exactly representable; for u = 1 or u = -1 the double next above or  *)
(* next below n/d, where n/d is a power of two.  Arithmetic on floats with *)
(* u = 0 is exact.  Python ints are TLA+ integers.                         *)
(* Power values handed to decibel() are taken from a                       *)
(* logarithmic grid: an entry [sign |-> 1, dB |-> e] is the power          *)
(* 10^(e/10), sign 0 is the value zero and sign -1 a negative value.       *)
(*                                                                         *)
(* One call is in progress at a time.  The parameter functions are pure    *)
(* and run as one step; spectrogram() and decibel() run line by line so    *)
(* that the device transfers are visible.                                  *)
(***************************************************************************)
EXTENDS Integers, Sequences, FiniteSets, TLC

VARIABLES device, pc, fn, args, tensors, shape, trace, ret

vars == <<device, pc, fn, args, tensors, shape, trace, ret>>

(***************************************************************************)
(* Bounds of the model.                                                    *)
(***************************************************************************)
MaxNum == 9        \* largest numerator of a float argument
MaxDen == 8        \* largest denominator of a float argument
MaxRate == 6       \* largest sampling rate
MaxExp == 3        \* nfft arguments are 2^0 .. 2^MaxExp
MaxLen == 9        \* longest signal
MaxHop == 4        \* largest hop length argument
MaxEntries == 3    \* most entries of a spectrogram handed to decibel()
MaxLevel == 6      \* power entries range over 10^(-2*MaxLevel) .. 10^0
MaxPow == 5        \* the doubles beside 2^k are arguments for |k| <= MaxPow
MaxK == 6          \* exponents k quantified over in the claims

(***************************************************************************)
(* Float arithmetic.                                                       *)
(***************************************************************************)
Abs(x) == IF x < 0 THEN -x ELSE x

RECURSIVE GCD(_, _)
GCD(a, b) == IF b = 0 THEN a ELSE GCD(b, a % b)

Rat(n, d) == LET g == GCD(Abs(n), d) IN [n |-> n \div g, d |-> d \div g, ulp |-> 0]

FromInt(i) == [n |-> i, d |-> 1, ulp |-> 0]

RLess(p, q) ==
    \/ p.n * q.d < q.n * p.d
    \/ p.n * q.d = q.n * p.d /\ p.ulp < q.ulp

RLeq(p, q) == p = q \/ RLess(p, q)

RSub(p, q) == Rat(p.n * q.d - q.n * p.d, p.d * q.d)

RMul(p, q) == Rat(p.n * q.n, p.d * q.d)

\* p / q for q > 0
RDiv(p, q) == Rat(p.n * q.d, p.d * q.n)

\* float.is_integer(); the doubles beside 2^k, |k| <= MaxPow, are not whole
is_integer(q) == q.d = 1 /\ q.ulp = 0

\* np.floor
floor(q) == q.n \div q.d

\* int(x): truncation toward zero
int(q) ==
    IF q.n < 0 THEN -((-q.n) \div q.d)
    ELSE IF q.ulp = -1 /\ q.d = 1 THEN q.n - 1
    ELSE q.n \div q.d

RECURSIVE IsPow2Nat(_)
IsPow2Nat(n) == IF n = 1 THEN TRUE
                ELSE IF n < 1 \/ n % 2 = 1 THEN FALSE
                ELSE IsPow2Nat(n \div 2)

\* 2**k as Python evaluates it: an int for k >= 0, the float 1/2^(-k) for k < 0
Pow2(k) == IF k >= 0 THEN [n |-> 2^k, d |-> 1, ulp |-> 0]
           ELSE [n |-> 1, d |-> 2^(-k), ulp |-> 0]

IsPow2Rat(num) == \/ num.d = 1 /\ IsPow2Nat(num.n)
                  \/ num.n = 1 /\ IsPow2Nat(num.d)

RECURSIVE Log2Nat(_)
Log2Nat(n) == IF n < 2 THEN 0 ELSE 1 + Log2Nat(n \div 2)

\* the k with n/d = 2^k, for a power of two n/d
Log2Exact(num) == IF num.d = 1 THEN Log2Nat(num.n) ELSE -Log2Nat(num.d)

(***************************************************************************)
(* math.log2 of the double beside 2^k is the double nearest to             *)
(*   k + log2(1 + 2^-52) = k + 2.8854 * 2^-53   (next above), or           *)
(*   k + log2(1 - 2^-53) = k - 1.4427 * 2^-53   (next below).              *)
(* Doubles in [2^j, 2^(j+1)) lie 2^(j+1) * 2^-53 apart, so the result is   *)
(* the whole number k itself when the offset is less than half the         *)
(* distance between the doubles on that side of k.  Offsets and distances  *)
(* are in units of 2^-53 / 10000.                                          *)
(***************************************************************************)
Log2RoundsToInteger(k, ulp) ==
    LET a == Abs(k)
        offset == IF ulp = 1 THEN 28854 ELSE 14427
        away == (k > 0 /\ ulp = 1) \/ (k < 0 /\ ulp = -1)
        j == Log2Nat(a)
        spacing == IF away \/ ~IsPow2Nat(a) THEN 2^(j + 1) ELSE 2^j
    IN  k # 0 /\ 2 * offset < spacing * 10000

\* math.log2(num).is_integer()
Log2IsInteger(num) ==
    /\ IsPow2Rat(num)
    /\ num.ulp # 0 => Log2RoundsToInteger(Log2Exact(num), num.ulp)

RECURSIVE CeilLog2Up(_, _)
CeilLog2Up(num, k) == IF RLeq(num, Pow2(k)) THEN k ELSE CeilLog2Up(num, k + 1)

RECURSIVE CeilLog2Down(_, _)
CeilLog2Down(num, k) == IF RLeq(num, Pow2(k - 1)) THEN CeilLog2Down(num, k - 1) ELSE k

\* math.ceil(math.log2(num)) for num > 0 whose log2 is not whole: the least k with num <= 2^k
CeilLog2(num) == IF RLess(FromInt(1), num) THEN CeilLog2Up(num, 1)
                 ELSE CeilLog2Down(num, 0)

(***************************************************************************)
(* The parameter functions.                                                *)
(***************************************************************************)
next_power_of_two(num) ==
    IF Log2IsInteger(num) THEN num ELSE Pow2(CeilLog2(num))

freqres_to_nfft(freq_res, samplingrate) ==
    int(next_power_of_two(RDiv(samplingrate, freq_res)))

\* A plausible bug: the overlap itself is used instead of its complement
overlap_to_hoplen_overlap(overlap, nfft) ==
    int(FromInt(floor(RMul(FromInt(nfft), overlap))))

overlap_to_hoplen(overlap, nfft) ==
    int(FromInt(floor(RMul(FromInt(nfft), RSub(FromInt(1), overlap)))))

Value(v) == [exc |-> "none", val |-> <<v>>]

Raise(e) == [exc |-> e, val |-> <<>>]

\* A plausible bug: the value is truncated instead of rejected
sint_truncating(num) == Value(int(num))

sint(num) == IF is_integer(num) THEN Value(int(num)) ELSE Raise("ValueError")

(***************************************************************************)
(* Arguments the calls are made with.                                      *)
(***************************************************************************)
PosFloats == {Rat(n, d) : n \in 1..MaxNum, d \in 1..MaxDen}

\* math.nextafter(2.0**k, inf) and math.nextafter(2.0**k, 0)
Neighbours == {[Pow2(k) EXCEPT !.ulp = u] : k \in (-MaxPow)..MaxPow, u \in {-1, 1}}

Floats == {Rat(n, d) : n \in (-MaxNum)..MaxNum, d \in 1..MaxDen}

\* overlaps in [0, 1]; 1 itself is outside the documented range
Overlaps == UNION {{Rat(n, d) : n \in 0..d} : d \in 1..MaxDen}

Rates == {FromInt(r) : r \in 1..MaxRate}

NoTensors == [data |-> "none", transform |-> "none", spec |-> "none"]

\* no state outlives a call except the module-level device: every call starts afresh
Ready == pc = "idle"

\* a pure call: runs in one step to the line that returns or raises
Returns(f, a, label, r) ==
    /\ pc' = label
    /\ fn' = f
    /\ args' = a
    /\ ret' = r
    /\ tensors' = NoTensors
    /\ shape' = <<0, 0>>
    /\ trace' = <<>>
    /\ UNCHANGED device

call_next_power_of_two ==
    /\ Ready
    /\ \E num \in PosFloats \cup Neighbours :
        Returns("next_power_of_two", [num |-> num],
                IF Log2IsInteger(num) THEN "return_l27" ELSE "return_l29",
                Value(next_power_of_two(num)))

call_freqres_to_nfft ==
    /\ Ready
    /\ \E freq_res \in PosFloats, samplingrate \in Rates :
        Returns("freqres_to_nfft",
                [freq_res |-> freq_res, samplingrate |-> samplingrate],
                "return_l48",
                Value(freqres_to_nfft(freq_res, samplingrate)))

call_overlap_to_hoplen ==
    /\ Ready
    /\ \E overlap \in Overlaps, nfft \in 0..(2^MaxExp) :
        Returns("overlap_to_hoplen", [overlap |-> overlap, nfft |-> nfft], "return_l66",
                Value(overlap_to_hoplen(overlap, nfft)))

call_sint ==
    /\ Ready
    /\ \E num \in Floats :
        Returns("sint", [num |-> num],
                IF is_integer(num) THEN "return_l88" ELSE "raise_l90", sint(num))

\* FFTParameters of SpectralParameters: freqres_to_nfft, then overlap_to_hoplen on its result
derive_fft_parameters ==
    /\ Ready
    /\ \E freq_res \in PosFloats, samplingrate \in Rates, overlap \in Overlaps :
        LET nfft == freqres_to_nfft(freq_res, samplingrate) IN
        Returns("fft_parameters",
                [freq_res |-> freq_res, samplingrate |-> samplingrate, overlap |-> overlap],
                "return_derived",
                Value([nfft |-> nfft, hop_length |-> overlap_to_hoplen(overlap, nfft)]))

(***************************************************************************)
(* Tensors and the compute device.                                         *)
(***************************************************************************)
\* Tensor.to(device), Module.to(device)
to(loc, dev) == dev

\* A plausible bug: the result is left where it was computed
cpu_missing(loc) == loc

\* Tensor.cpu()
cpu(loc) == "cpu"

Step(label) == pc' = label /\ UNCHANGED <<device, fn, args>>

Finish(label, r) == pc' = label /\ ret' = r /\ UNCHANGED <<device, fn, args>>

(***************************************************************************)
(* torchaudio.transforms.Spectrogram(n_fft, hop_length, power=2,           *)
(* normalized=True, window_fn=hann_window) with its defaults center=True,  *)
(* pad_mode="reflect", onesided=True: the signal is reflect-padded by      *)
(* n_fft // 2 on both sides, which needs more samples than the pad, and    *)
(* is cut into frames of n_fft samples every hop_length samples.           *)
(***************************************************************************)
StftPad(nfft) == nfft \div 2

\* the reflect pad must be shorter than the signal, the padded signal not shorter than n_fft
StftRaises(len, nfft) == StftPad(nfft) >= len \/ len + 2 * StftPad(nfft) < nfft

StftShape(len, nfft, hop_length) ==
    <<nfft \div 2 + 1, 1 + (len + 2 * StftPad(nfft) - nfft) \div hop_length>>

\* np.arange(0, n) * a / b
Axis(n, a, b) == [i \in 1..n |-> RDiv(RMul(FromInt(i - 1), a), b)]

\* A plausible bug: the time axis is sized by the rows of the matrix
time_axis_rows(shp, hop_length, samplingrate) ==
    Axis(shp[1], FromInt(hop_length), samplingrate)

\* time = np.arange(0, spec.shape[1]) * hop_length / samplingrate
time_axis(shp, hop_length, samplingrate) ==
    Axis(shp[2], FromInt(hop_length), samplingrate)

\* freq = np.arange(0, spec.shape[0]) * samplingrate / nfft
freq_axis(shp, samplingrate, nfft) == Axis(shp[1], samplingrate, FromInt(nfft))

Nffts == {2^e : e \in 0..MaxExp}

call_spectrogram ==
    /\ Ready
    /\ \E len \in 1..MaxLen, samplingrate \in Rates, nfft \in Nffts, hop_length \in 1..MaxHop :
        /\ pc' = "l134"
        /\ fn' = "spectrogram"
        /\ args' = [len |-> len, samplingrate |-> samplingrate, nfft |-> nfft,
                    hop_length |-> hop_length]
        /\ tensors' = [NoTensors EXCEPT !.data = "cpu"]
        /\ UNCHANGED <<device, shape, trace, ret>>

\* data = torch.from_numpy(data).to(device)
spectrogram_l134 ==
    /\ pc = "l134" /\ fn = "spectrogram"
    /\ tensors' = [tensors EXCEPT !.data = to(@, device)]
    /\ trace' = Append(trace, "data_to_device")
    /\ Step("l135")
    /\ UNCHANGED <<shape, ret>>

\* spectrogram_of = Spectrogram(...).to(device)
spectrogram_l135 ==
    /\ pc = "l135" /\ fn = "spectrogram"
    /\ tensors' = [tensors EXCEPT !.transform = to("cpu", device)]
    /\ trace' = Append(trace, "transform_to_device")
    /\ Step("l142")
    /\ UNCHANGED <<shape, ret>>

\* spectrogram_of(data): the transform; its result lives where its operands live
spectrogram_l142 ==
    /\ pc = "l142" /\ fn = "spectrogram"
    /\ trace' = Append(trace, "compute")
    /\ IF tensors.data # tensors.transform \/ StftRaises(args.len, args.nfft)
       THEN /\ Finish("raise_l142", Raise("RuntimeError"))
            /\ UNCHANGED <<tensors, shape>>
       ELSE /\ tensors' = [tensors EXCEPT !.spec = tensors.data]
            /\ shape' = StftShape(args.len, args.nfft, args.hop_length)
            /\ Step("l142_cpu")
            /\ UNCHANGED ret

\* .cpu().numpy()
spectrogram_l142_cpu ==
    /\ pc = "l142_cpu" /\ fn = "spectrogram"
    /\ tensors' = [tensors EXCEPT !.spec = cpu(@)]
    /\ trace' = Append(trace, "to_host")
    /\ Step("l143")
    /\ UNCHANGED <<shape, ret>>

\* time, freq and the return of the triple; numpy arrays live in host memory
spectrogram_l143 ==
    /\ pc = "l143" /\ fn = "spectrogram"
    /\ Finish("return_l145",
              [exc |-> "none",
               val |-> <<shape,
                         time_axis(shape, args.hop_length, args.samplingrate),
                         freq_axis(shape, args.samplingrate, args.nfft)>>,
               loc |-> <<tensors.spec, "cpu", "cpu">>])
    /\ UNCHANGED <<tensors, shape, trace>>

(***************************************************************************)
(* torchaudio.transforms.AmplitudeToDB(stype="power", top_db=80) with its  *)
(* defaults amin=1e-10 and reference 1.0:                                  *)
(*   x_db = 10 * log10(clamp(x, min=amin)) - 10 * log10(max(amin, 1.0))    *)
(*   x_db = max(x_db, x_db.max() - top_db)                                 *)
(* Decibel values are integers on the grid of the entries.                 *)
(***************************************************************************)
top_db == 80

\* 10 * log10(amin) for amin = 1e-10
amin_db == -100

Power(e) == [sign |-> 1, dB |-> e]

Zero == [sign |-> 0, dB |-> 0]

Negative == [sign |-> -1, dB |-> 0]

\* x > y on power entries
Greater(x, y) ==
    \/ x.sign > y.sign
    \/ x.sign = 1 /\ y.sign = 1 /\ x.dB > y.dB

\* A plausible bug: a smaller amin, 1e-12
clamp_amin_smaller(x) == IF Greater(Power(amin_db - 20), x) THEN Power(amin_db - 20) ELSE x

\* torch.clamp(x, min=amin)
clamp_amin(x) == IF Greater(Power(amin_db), x) THEN Power(amin_db) ELSE x

\* 10 * log10(x) for x > 0
ten_log10(x) == x.dB

Max(a, b) == IF a >= b THEN a ELSE b

SeqMax(s) == CHOOSE m \in {s[i] : i \in 1..Len(s)} : \A i \in 1..Len(s) : s[i] <= m

\* A plausible bug: top_db is not applied
amplitude_to_DB_unclamped(x) ==
    [i \in 1..Len(x) |-> ten_log10(clamp_amin(x[i])) - Max(amin_db, 0)]

amplitude_to_DB(x) ==
    LET x_db == [i \in 1..Len(x) |-> ten_log10(clamp_amin(x[i])) - Max(amin_db, 0)]
    IN  [i \in 1..Len(x) |-> Max(x_db[i], SeqMax(x_db) - top_db)]

Entries == {Power(-20 * l) : l \in 0..MaxLevel} \cup {Zero, Negative}

Matrices == UNION {[1..n -> Entries] : n \in 1..MaxEntries}

call_decibel ==
    /\ Ready
    /\ \E spec \in Matrices :
        /\ pc' = "l161"
        /\ fn' = "decibel"
        /\ args' = [spec |-> spec]
        /\ tensors' = [NoTensors EXCEPT !.data = "cpu"]
        /\ UNCHANGED <<device, shape, trace, ret>>

\* spec = torch.from_numpy(spec).to(device)
decibel_l161 ==
    /\ pc = "l161" /\ fn = "decibel"
    /\ tensors' = [tensors EXCEPT !.data = to(@, device)]
    /\ trace' = Append(trace, "data_to_device")
    /\ Step("l162")
    /\ UNCHANGED <<shape, ret>>

\* decibel_of = AmplitudeToDB(stype="power", top_db=80).to(device)
decibel_l162 ==
    /\ pc = "l162" /\ fn = "decibel"
    /\ tensors' = [tensors EXCEPT !.transform = to("cpu", device)]
    /\ trace' = Append(trace, "transform_to_device")
    /\ Step("l163")
    /\ UNCHANGED <<shape, ret>>

\* return decibel_of(spec).cpu().numpy()
decibel_l163 ==
    /\ pc = "l163" /\ fn = "decibel"
    /\ tensors' = [tensors EXCEPT !.spec = cpu(tensors.data)]
    /\ trace' = trace \o <<"compute", "to_host">>
    /\ Finish("return_l163",
              [exc |-> "none", val |-> <<amplitude_to_DB(args.spec)>>,
               loc |-> <<cpu(tensors.data)>>])
    /\ UNCHANGED shape

Init ==
    /\ device \in {"cuda", "cpu"}
    /\ pc = "idle"
    /\ fn = "none"
    /\ args = <<>>
    /\ tensors = NoTensors
    /\ shape = <<0, 0>>
    /\ trace = <<>>
    /\ ret = [exc |-> "none", val |-> <<>>]

Next ==
    \/ call_next_power_of_two
    \/ call_freqres_to_nfft
    \/ call_overlap_to_hoplen
    \/ call_sint
    \/ derive_fft_parameters
    \/ call_spectrogram
    \/ spectrogram_l134
    \/ spectrogram_l135
    \/ spectrogram_l142
    \/ spectrogram_l142_cpu
    \/ spectrogram_l143
    \/ call_decibel
    \/ decibel_l161
    \/ decibel_l162
    \/ decibel_l163

Spec == Init /\ [][Next]_vars

(***************************************************************************)
(* The claims.                                                             *)
(***************************************************************************)
Returned ==
    pc \in {"return_l27", "return_l29", "return_l48", "return_l66", "return_l88", "raise_l90",
            "return_derived", "raise_l142", "return_l145", "return_l163"}

Done(f) == Returned /\ fn = f

Result == ret.val[1]

\* C1 (as claimed): for every integer k and every n with 2^(k-1) < n <= 2^k,
\* next_power_of_two(n) returns 2^k; an exact power of two is returned unchanged.
C1_NextPowerOfTwo ==
    Done("next_power_of_two") =>
        /\ ret.exc = "none"
        /\ \E k \in (-MaxK)..MaxK : RLess(Pow2(k - 1), args.num) /\ RLeq(args.num, Pow2(k))
        /\ \A k \in (-MaxK)..MaxK :
               RLess(Pow2(k - 1), args.num) /\ RLeq(args.num, Pow2(k))
                   => Result = Pow2(k)
        /\ \A k \in (-MaxK)..MaxK : args.num = Pow2(k) => Result = args.num

\* C2 (as claimed): for every n > 0 the value next_power_of_two returns is a positive
\* integer that is a power of two (1, 2, 4, 8, ...).
C2_PositiveIntegerPower ==
    Done("next_power_of_two") =>
        /\ ret.exc = "none"
        /\ Result.d = 1 /\ Result.ulp = 0
        /\ IsPow2Nat(Result.n)

\* C3 (as claimed): for all freq_res > 0 and sampling_rate > 0, freqres_to_nfft returns
\* an integer power of two >= sampling_rate / freq_res whose half is < sampling_rate / freq_res.
C3_NfftTightPower ==
    Done("freqres_to_nfft") =>
        LET ratio == RDiv(args.samplingrate, args.freq_res) IN
        /\ ret.exc = "none"
        /\ IsPow2Nat(Result)
        /\ RLeq(ratio, FromInt(Result))
        /\ RLess(Rat(Result, 2), ratio)

\* C4 (as claimed): for frequency_resolution > 0, sampling_rate > 0 and overlap in [0, 1),
\* the derived nfft is a positive integer power of two and 1 <= hop_length <= nfft.
C4_FFTParameters ==
    Done("fft_parameters") /\ RLess(args.overlap, FromInt(1)) =>
        /\ IsPow2Nat(Result.nfft)
        /\ 1 <= Result.hop_length
        /\ Result.hop_length <= Result.nfft

C6_ExactInt ==
    Done("sint") =>
        IF args.num.n % args.num.d = 0
        THEN ret.exc = "none" /\ ret.val = <<args.num.n \div args.num.d>>
        ELSE ret.exc = "ValueError" /\ ret.val = <<>>

\* C6 witness: 9/2 was rejected
C6_Witness ==
    Done("sint") /\ args.num = Rat(9, 2) /\ ret.exc = "ValueError" /\ ret.val = <<>>

AxesMatch ==
    LET spec_shape == ret.val[1]
        time == ret.val[2]
        freq == ret.val[3]
    IN  /\ ret.exc = "none"
        /\ 2 * (spec_shape[1] - 1) = args.nfft
        /\ Len(freq) = spec_shape[1]
        /\ spec_shape[2] = args.len \div args.hop_length + 1
        /\ Len(time) = spec_shape[2]
        /\ \A i \in 1..Len(time) :
               time[i].n * args.samplingrate.n
                   = (i - 1) * args.hop_length * args.samplingrate.d * time[i].d
        /\ \A j \in 1..Len(freq) :
               freq[j].n * args.nfft * args.samplingrate.d
                   = (j - 1) * args.samplingrate.n * freq[j].d

InDb == args.spec

OutDb == ret.val[1]

Floor80 == SeqMax(OutDb) - 80

NeverBelowFloor == \A i \in 1..Len(OutDb) : OutDb[i] >= Floor80

\* C8 (as claimed): for all entries a > b > 0, db(a) > db(b) unless both are at the floor
\* (then db(a) = db(b)), and no output entry is lower than the maximum output - 80.
C8_MonotonicFloorOnly ==
    Done("decibel") =>
        /\ ret.exc = "none" /\ Len(OutDb) = Len(InDb)
        /\ NeverBelowFloor
        /\ \A i, j \in 1..Len(InDb) :
               InDb[j].sign = 1 /\ Greater(InDb[i], InDb[j]) =>
                   \/ OutDb[i] > OutDb[j]
                   \/ OutDb[i] = Floor80 /\ OutDb[j] = Floor80

\* C8 (amended): for all entries a > b > 0, db(a) > db(b) unless both are at the floor or
\* both a and b are at most 1e-10 (then db(a) = db(b)); no output entry is lower than the
\* maximum output - 80.
C8_MonotonicFloorOrAmin ==
    Done("decibel") =>
        /\ ret.exc = "none" /\ Len(OutDb) = Len(InDb)
        /\ NeverBelowFloor
        /\ \A i, j \in 1..Len(InDb) :
               InDb[j].sign = 1 /\ Greater(InDb[i], InDb[j]) =>
                   \/ OutDb[i] > OutDb[j]
                   \/ OutDb[i] = Floor80 /\ OutDb[j] = Floor80
                   \/ InDb[i].dB <= -100 /\ OutDb[i] = OutDb[j]

\* C8 witness: three positive entries, the largest strictly above the second, the two
\* smaller ones more than 80 dB below the peak and both at the floor
C8_Witness ==
    /\ Done("decibel") /\ Len(InDb) = 3
    /\ InDb[1] = Power(0) /\ InDb[2] = Power(-20) /\ InDb[3] = Power(-100)
    /\ ret.val[1] = <<0, -20, -80>>

\* C9 (as claimed): decibel never raises on zero or negative entries, and each such entry
\* comes out exactly at the floor, maximum - 80.
C9_DegenerateAtFloor ==
    Done("decibel") =>
        /\ ret.exc = "none"
        /\ \A i \in 1..Len(InDb) : InDb[i].sign <= 0 => OutDb[i] = Floor80

\* C9 (amended): decibel never raises on zero or negative entries; each such entry is
\* treated as 1e-10 (-100 dB) before clamping and comes out at max(-100, maximum - 80).
C9_DegenerateAtAminOrFloor ==
    Done("decibel") =>
        /\ ret.exc = "none"
        /\ \A i \in 1..Len(InDb) :
               InDb[i].sign <= 0 =>
                   OutDb[i] = (IF Floor80 > -100 THEN Floor80 ELSE -100)

\* C9 witness: a zero entry beside a peak of -40 dB came out at -100, above the floor -120
C9_Witness ==
    /\ Done("decibel") /\ Len(InDb) = 2
    /\ InDb[1] = Power(-40) /\ InDb[2] = Zero
    /\ ret.val[1] = <<-40, -100>>

Before(e1, e2) ==
    \A j \in 1..Len(trace) : trace[j] = e2 => \E i \in 1..(j - 1) : trace[i] = e1

OnDevice == tensors.data = device /\ tensors.transform = device

\* C10: in every call of spectrogram and of decibel the input tensor and the transform are
\* on the selected device before the computation starts, and the result is copied to host
\* memory before the function returns: no returned value is device-resident.
C10_DeviceOrder ==
    fn \in {"spectrogram", "decibel"} =>
        /\ Before("data_to_device", "compute")
        /\ Before("transform_to_device", "compute")
        /\ Before("compute", "to_host")
        /\ (pc \in {"l142", "l163"} => OnDevice)
        /\ (Returned /\ ret.exc = "none" =>
               /\ \E i \in 1..Len(trace) : trace[i] = "to_host"
               /\ \A i \in 1..Len(ret.loc) : ret.loc[i] = "cpu")

\* C10 witness: a spectrogram computed on the accelerator has been returned
C10_Witness ==
    /\ Done("spectrogram") /\ device = "cuda" /\ ret.exc = "none"
    /\ trace = <<"data_to_device", "transform_to_device", "compute", "to_host">>

====
